---------------------------- MODULE Spec2Model ----------------------------
(***************************************************************************)
(* A model of cleanup.py, the pipeline that merges several years of        *)
(* Save Our Shores cleanup spreadsheets into one table: orient_data,       *)
(* rename_data, read_sheet, _add_cols / merge_columns, _rename_site /      *)
(* merge_sites and the driver merge_data with the __main__ block.          *)
(*                                                                         *)
(* A pandas DataFrame is a record                                          *)
(*   [columns, dtype, index, data]                                         *)
(* of the column labels, the dtype of every column, the row labels and the *)
(* cells, row by row.  DataFrames live in a heap of objects and the        *)
(* program's variables hold references, so that an operation done in place *)
(* (inplace=True, df[col] = ..., +=) is seen through every reference while *)
(* one that returns a new frame (copy, set_index, reset_index, T, concat)  *)
(* is not.  Strings are TLA+ strings; Len, SubSeq and \o act on them.      *)
(***************************************************************************)
EXTENDS Integers, Sequences, FiniteSets, TLC

(***************************************************************************)
(* Cells and labels.  A cell (and a label, which after a transposition is  *)
(* a former cell) is a number, a string or the missing value.              *)
(***************************************************************************)
NaN == <<"nan", 0>>
Num(n) == <<"num", n>>
Str(s) == <<"str", s>>
IsStr(c) == c[1] = "str"
IsNum(c) == c[1] = "num"
isna(c) == c[1] = "nan"

\* The caller's "no DataFrame yet" (merged_data = None).
None == 0

(***************************************************************************)
(* Sequences.                                                              *)
(***************************************************************************)
\* The elements of seq at the positions idx, in their order.
Keep(seq, idx) ==
  [j \in 1..Cardinality(idx) |->
     seq[CHOOSE i \in idx : Cardinality({x \in idx : x <= i}) = j]]

Range(seq) == {seq[i] : i \in 1..Len(seq)}

RECURSIVE SumSeq(_)
SumSeq(seq) == IF seq = <<>> THEN 0 ELSE Head(seq) + SumSeq(Tail(seq))

\* Python's range(n) as row labels: 0, 1, ..., n-1.
RangeIndex(n) == [i \in 1..n |-> Num(i - 1)]

(***************************************************************************)
(* Python strings.                                                         *)
(***************************************************************************)
Whitespace == {" ", "\t", "\n"}

\* str.find: the least (0-based) position where key occurs in s, or -1.
find(s, key) ==
  LET hits == {i \in 1..(Len(s) - Len(key) + 1) :
                 SubSeq(s, i, i + Len(key) - 1) = key}
  IN IF hits = {} THEN -1
     ELSE (CHOOSE i \in hits : \A j \in hits : i <= j) - 1

\* str.strip(): without its leading and trailing whitespace.
strip(s) ==
  LET solid == {i \in 1..Len(s) : SubSeq(s, i, i) \notin Whitespace}
  IN IF solid = {} THEN ""
     ELSE SubSeq(s, CHOOSE i \in solid : \A j \in solid : i <= j,
                    CHOOSE i \in solid : \A j \in solid : i >= j)

(***************************************************************************)
(* The static tables of the program.                                       *)
(***************************************************************************)
\* read_excel's na_values.
na_values == {"UNK", "Unk", "-"}

\* rename_data's columns= dictionary, <<historical label, canonical label>>.
ColumnAliasMap ==
  << <<"Date of Cleanup Event/Fecha", "Date">>,
     <<"Cleanup Date", "Date">>,
     <<"Cleanup Site/Sitio de limpieza", "Cleanup Site">>,
     <<"Estimated size of location cleaned (sq miles)", "Cleaned size (sq miles)">>,
     <<"Cleanup Area", "Cleaned size (sq miles)">>,
     <<"Total Cleanup Duration (hrs)", "Duration (hrs)">>,
     <<"# of Volunteers", "Adult Volunteers">>,
     <<"Pounds of Trash Collected", "Pounds of Trash">>,
     <<"Pounds of Recycle Collected", "Pounds of Recycling">>,
     <<"County/City where the event was held?", "County/City">>,
     <<"County", "County/City">>,
     <<"Appliances (refrigerators, washers, etc.)", "Appliances">>,
     <<"Beverages Sachets/Pouches", "Beverage Pouches">>,
     <<"Beverages Sachets", "Beverage Pouches">>,
     <<"Toys and Beach Accessories", "Beach Toys/Accessories">>,
     <<"Beach chairs, toys umbrellas", "Beach Toys/Accessories">>,
     <<"Balloons or ribbon", "Balloons">>,
     <<"Bandaids or bandages", "Bandaids">>,
     <<"Clothes, cloth", "Clothes/Cloth">>,
     <<"Clothes or towels", "Clothes/Cloth">>,
     <<"Footwear (shoes/slippers)", "Footwear">>,
     <<"Shoes", "Footwear">>,
     <<"Glass Pieces and Chunks", "Glass Pieces">>,
     <<"Pieces and Chunks", "Glass Pieces">>,
     <<"Disposable lighters", "Lighters">>,
     <<"Disposable cigarette lighters", "Lighters">>,
     <<"Paper Newpapers/ Magazines", "Newspapers/Magazines">>,
     <<"Other Plastic/ Foam Packaging", "Other Plastic/Foam Packaging">>,
     <<"Plastic food wrappers (ie chips or candy)", "Plastic food wrappers">>,
     <<"Polystyrene Foodware (foam)", "Polystyrene Foodware">>,
     <<"Personal Protective Equipment (masks, gloves)", "PPE">>,
     <<"Personal Protective Equipment", "PPE">>,
     <<"Lids (Plastic)", "Plastic Lids">>,
     <<"Rope (1 yard/meter = 1 piece)", "Rope (yard pieces)">>,
     <<"Syringes or needles", "Syringes/Needles">>,
     <<"Utensils (plastic)", "Utensils">>,
     <<"Forks, Knives, Spoons", "Utensils">>,
     <<"Wood pallets, pieces and processed wood", "Wood pieces">> >>

\* merge_columns' calls of _add_cols in order, <<target_col, source_cols>>.
ColumnMergeMap ==
  << <<"Bags",
        << "Shopping bags",
           "Other Plastic Bags",
           "Paper Bags",
           "Plastic Bags (grocery, shopping)",
           "Plastic Bags (trash) ",
           "Plastic Bags (ziplock, snack)",
           "Grocery Bags (Plastic)" >> >>,
     <<"Bottle Caps",
        << "Bottle Caps",
           "Bottle Caps and Rings",
           "Metal Bottle Caps",
           "Plastic Bottle Caps and Rings",
           "Metal bottle caps or can pulls",
           "Bottle Caps (Plastic)",
           "Bottle Caps (Metal)" >> >>,
     <<"Cardboard",
        << "Cardboard",
           "Paper Cardboard" >> >>,
     <<"Cans",
        << "Beverage Cans",
           "Beer Cans",
           "Soda Cans",
           "Metal beverage cans" >> >>,
     <<"E-Waste",
        << "E-waste",
           "Vape items/ E-smoking devices",
           "E-cigarettes" >> >>,
     <<"Fishing Gear",
        << "Fishing gear (lures, nets, etc.)",
           "Fishing Lines, Nets, Traps, Ropes, Pots",
           "Plastic fishing line, nets, lures, floats",
           "Fishing Net & Pieces",
           "Fishing Line (1 yard/meter = 1 piece)",
           "Fishing Buoys, Pots & Traps",
           "Metal fishing hooks or lures",
           "Crab pots" >> >>,
     <<"Food Containers",
        << "Food containers, cups, plates, bowls",
           "Food containers (plastic)",
           "Food containers (foam)",
           "Food Containers/ Cups/ Plates/ Bowls",
           "Paper food containers, cups, plates",
           "Paper food containers, cups, plates, bowls",
           "Paper/ Cardboard Food containers, cups, plates, bowls",
           "Plastic Polystyrene cups/plates/bowls (foam)",
           "Plastic cups, lids/plates/utensils",
           "Polystyrene Foodware",
           "Styrofoam food containers",
           "Styrofoam Cups, Plates and Bowls ",
           "Cups, Plates (Paper)",
           "Cups, Plates (Plastic)",
           "Cups, Plates (Foam)",
           "Cups & Plates (Paper)",
           "Cups & Plates (Plastic)",
           "Cups & Plates (Foam)",
           "Plastic cups, lids, plates, utensils" >> >>,
     <<"Personal Hygiene",
        << "Personal Hygiene",
           "Condoms",
           "Diapers",
           "Tampons/Tampon Applicators",
           "Tampons/Applicators",
           "Cotton Bud Sticks (swabs)",
           "Feminine Products",
           "Feminine Hygeine Products" >> >>,
     <<"Plastic Packaging",
        << "Foam packaging",
           "Other Plastic/Foam Packaging",
           "Other Packaging (Clean Swell)",
           "Styrofoam peanuts or packing materials" >> >>,
     <<"Plastic Bottles",
        << "Plastic Bottles",
           "Other Plastic Bottles (oil, bleach, etc.)",
           "Plastic motor oil bottles",
           "Other Plastic Bottles",
           "Beverage Bottles (Plastic)" >> >>,
     <<"Plastic Pieces",
        << "Plastic Pieces",
           "Polystyrene Pieces",
           "Foam Dock Pieces",
           "Styrofoam pieces",
           "Foam pieces" >> >>,
     <<"Plastic To-Go Items",
        << "Plastic To-Go Items",
           "Plastic Polystyrene food \"to-go\" containers",
           "Take Out/Away Containers (Foam)",
           "Take Out/Away Containers (Plastic)",
           "Take Out/Away (Plastic",
           "Take Out/Away (Foam)" >> >>,
     <<"Smoking/Tobacco",
        << "Smoking, tobacco (not e-waste or butts)",
           "Tobacco Packaging/Wrap",
           "Smoking, tobacco, vape items (not butts)",
           "Cigarette box or wrappers",
           "Other tobacco (packaging, lighter, etc.)" >> >>,
     <<"Straws/Stirrers",
        << "Straws and stirrers",
           "Plastic straws or stirrers" >> >>,
     <<"Other",
        << "Other, small",
           "Other, large",
           "Other Plastics Waste",
           "Other waste (metal, paper, etc.)",
           "Other Trash (Clean Swell)",
           "Other Sum" >> >> >>

\* merge_sites' calls of _rename_site in order, <<site_name, site_key>>.
SiteRules ==
  << <<"Bonny Doon Beach", "Bonny Doon">>,
     <<"Carmel Meadows", "Carmel Meadows">>,
     <<"Corcoran Lagoon", "Corcoran Lagoon">>,
     <<"Cowell/Main Beach", "Cowell">>,
     <<"Del Monte Beach", "Del Monte">>,
     <<"Elkhorn Slough", "Elkhorn Slough">>,
     <<"Lighthouse Field State Beach", "Lighthouse">>,
     <<"Marina State Beach", "Marina State">>,
     <<"Monterey State Beach", "Monterey State">>,
     <<"New Brighton State Beach", "New Brighton">>,
     <<"Panther State Beach", "Panther">>,
     <<"Palm State Beach", "Palm">>,
     <<"SLR @ The Tannery Arts Center", "Tannery">>,
     <<"Twin Lakes State Beach", "Twin Lakes">> >>

\* merge_sites' dictionary of site name variations, <<variant, canonical>>.
row_names ==
  << <<"Three-Mile State Beach",
        "3-Mile State Beach">>,
     <<"4 Mile Beach",
        "4-Mile State Beach">>,
     <<"Four Mile Beach",
        "4-Mile State Beach">>,
     <<"Beer Can Beach (also known as Dolphin/Sumner Beach)",
        "Beer Can Beach">>,
     <<"Black's Beach",
        "Blacks Beach">>,
     <<"Capitola City Beach",
        "Capitola Beach">>,
     <<"20th Ave Beach & Corcoran Lagoon",
        "Corcoran Lagoon @ 20th Ave">>,
     <<"Coewll and Main Beach",
        "Cowell/Main Beach">>,
     <<"Davenport Main Beach",
        "Davenport Landing Beach">>,
     <<"Elkhorn Slough @ Moss Landing (Monterey Bay Kayaks)",
        "Elkhorn Slough">>,
     <<"Ford Ord Dunes State Beach",
        "Fort Ord Dunes State Beach">>,
     <<"Ft. Ord Dunes State Park",
        "Fort Ord Dunes State Beach">>,
     <<"Hidden Beach Park",
        "Hidden Beach">>,
     <<"Marina State Beach at Reservation Rd",
        "Marina State Beach">>,
     <<"Mitchell's Cove Beach",
        "Mitchell's Cove">>,
     <<"Natural Bridges",
        "Natural Bridges State Beach">>,
     <<"North Del Monte/Tide Avenue/Casa Verde Beach",
        "North Del Monte Tide Ave">>,
     <<"North Ano Nuevo & Cascade Creek",
        "North Ano Nuevo/Cascade Creek">>,
     <<"North Ano Nuevo/ Cascade Creek",
        "North Ano Nuevo/Cascade Creek">>,
     <<"Rio Del Mar",
        "Rio Del Mar State Beach">>,
     <<"San Lorenzo River at Felker St. (HWY 1 overpass) to Soquel Ave",
        "SLR @ Felker to Soquel">>,
     <<"SLR @ Felton Covered Bridge",
        "SLR @ Felton">>,
     <<"SLR @ Felton Covered Bridge (DT Felton, New Leaf, Cremer House, to Felton Covered Bridge Park)",
        "SLR @ Felton">>,
     <<"SLR at Laurel St. Bridge",
        "SLR @ Laurel St">>,
     <<"San Lorenzo R. @ Laurel St to Riverside Ave",
        "SLR @ Laurel St to Riverside Ave">>,
     <<"San Lorenzo R. @ Riverside Ave to Main Beach",
        "SLR @ Riverside Ave to Main Beach">>,
     <<"SLR at Riverside Ave.",
        "SLR @ Riverside Ave.">>,
     <<"SLR at Soquel St. Bridge",
        "SLR @ Soquel St. Bridge">>,
     <<"San Lorenzo River (Soquel bridge to Riverside bridge)",
        "SLR @ Soquel St. to Riverside">>,
     <<"SLR @ Laurel Street Bridge to Riverside Ave",
        "SLR @ Soquel St. to Riverside">>,
     <<"SLR Cleanup @ Soquel Ave to Laurel St.",
        "SLR @ Soquel Ave to Laurel St.">>,
     <<"San Lorenzo R. @ Soquel Ave to Laurel St",
        "SLR @ Soquel Ave to Laurel St.">>,
     <<"SLR: Soquel to Laurel/Broadway",
        "SLR @ Soquel Ave to Laurel St.">>,
     <<"San Lorenzo R. @ Water St to Soquel Ave",
        "SLR @ Water St to Soquel Ave">>,
     <<"SLR @ Water St to Soquel",
        "SLR @ Water St to Soquel Ave">>,
     <<"SLR: Water St. Bridge to Soquel",
        "SLR @ Water St to Soquel Ave">>,
     <<"Salinas River State Beach at Molera Rd.",
        "Salinas River State Beach">>,
     <<"Salinas River National Wildlife Reuge",
        "Salinas River National Wildlife Refuge">>,
     <<"Sand City Beach at West Bay St.",
        "Sand City Beach">>,
     <<"Shark Fin Cove",
        "Shark Fin Cove State Beach">>,
     <<"Seacliff",
        "Seacliff State Beach">>,
     <<"Sunny Cove",
        "Sunny Cove Beach">>,
     <<"Sunset Beach",
        "Sunset State Beach">> >>

(***************************************************************************)
(* DataFrames.                                                             *)
(***************************************************************************)
Width(t) == Len(t.columns)
Height(t) == Len(t.index)
Has(t, label) == label \in Range(t.columns)

\* columns.get_loc of a label the frame has (its first position).
Loc(t, label) ==
  CHOOSE i \in 1..Width(t) :
    /\ t.columns[i] = label
    /\ \A j \in 1..(i - 1) : t.columns[j] # label

\* The cells of a column, top to bottom.
Column(t, label) == [r \in 1..Height(t) |-> t.data[r][Loc(t, label)]]

\* The frame with the columns at the positions idx only.
KeepColumns(t, idx) ==
  [columns |-> Keep(t.columns, idx),
   dtype   |-> Keep(t.dtype, idx),
   index   |-> t.index,
   data    |-> [r \in 1..Height(t) |-> Keep(t.data[r], idx)]]

\* The frame with the rows at the positions idx only (labels kept).
KeepRows(t, idx) ==
  [t EXCEPT !.index = Keep(t.index, idx), !.data = Keep(t.data, idx)]

\* df.drop(labels, axis=1): every column carrying one of the labels goes.
drop(t, labels) ==
  KeepColumns(t, {i \in 1..Width(t) : t.columns[i] \notin labels})

\* df[label] = cells: overwrite the column in its place, or append it.
setitem(t, label, cells, dt) ==
  IF Has(t, label)
  THEN [t EXCEPT !.dtype[Loc(t, label)] = dt,
                 !.data = [r \in 1..Height(t) |->
                             [t.data[r] EXCEPT ![Loc(t, label)] = cells[r]]]]
  ELSE [columns |-> Append(t.columns, label),
        dtype   |-> Append(t.dtype, dt),
        index   |-> t.index,
        data    |-> [r \in 1..Height(t) |-> Append(t.data[r], cells[r])]]

\* df.set_index(label).rename_axis(None): the column becomes the row labels.
set_index(t, label) ==
  LET rest == KeepColumns(t, (1..Width(t)) \ {Loc(t, label)})
  IN [rest EXCEPT !.index = Column(t, label)]

\* df.reset_index(drop=True): rows are numbered 0, 1, ...
reset_index(t) == [t EXCEPT !.index = RangeIndex(Height(t))]

\* df.T: rows and columns change places; every column of the result has the
\* common dtype of the columns transposed, object unless all were numeric.
transpose(t) ==
  LET common == IF Width(t) > 0 /\ \A i \in 1..Width(t) : t.dtype[i] = "num"
                THEN "num" ELSE "O"
  IN [columns |-> t.index,
      dtype   |-> [c \in 1..Height(t) |-> common],
      index   |-> t.columns,
      data    |-> [r \in 1..Width(t) |->
                     [c \in 1..Height(t) |-> t.data[c][r]]]]

\* df.dropna(how='all'): rows holding nothing but missing values go.
dropna_all(t) ==
  KeepRows(t, {r \in 1..Height(t) :
                 \E c \in 1..Width(t) : ~isna(t.data[r][c])})

\* df.dropna(subset=labels, how='all'): rows missing a value under every one
\* of the labels go.
dropna_subset_how_all(t, labels) ==
  KeepRows(t, {r \in 1..Height(t) :
                 \E l \in labels : ~isna(t.data[r][Loc(t, l)])})

\* df.dropna(subset=labels): rows missing a value under one of the labels go.
dropna_subset(t, labels) ==
  KeepRows(t, {r \in 1..Height(t) :
                 \A l \in labels : ~isna(t.data[r][Loc(t, l)])})

\* A numeric cell's value in a sum that skips missing values.
NanToZero(c) == IF IsNum(c) THEN c[2] ELSE 0

\* df[labels].sum(axis=1), one total per row.
sum_axis1(t, labels) ==
  [r \in 1..Height(t) |->
     Num(SumSeq([c \in 1..Width(t) |->
                   IF t.columns[c] \in labels THEN NanToZero(t.data[r][c])
                   ELSE 0]))]

\* The total of a column (missing values skipped).
Total(t, label) ==
  IF Has(t, label)
  THEN SumSeq([r \in 1..Height(t) |-> NanToZero(Column(t, label)[r])])
  ELSE 0

\* dict.get(key, key) on a dictionary literal: a repeated key keeps its last value.
Lookup(dict, key) ==
  LET hits == {i \in 1..Len(dict) : dict[i][1] = key}
  IN IF hits = {} THEN key
     ELSE dict[CHOOSE i \in hits : \A j \in hits : i >= j][2]

(***************************************************************************)
(* pd.read_excel(file_path, na_values=[...]).  A sheet is the header and   *)
(* the cells as typed; the listed strings are read as missing values, the  *)
(* rows are numbered from 0 and a column is numeric unless text remains.   *)
(***************************************************************************)
read_excel(sheet) ==
  LET cell(c) == IF IsStr(c) /\ c[2] \in na_values THEN NaN ELSE c
      data == [r \in 1..Len(sheet.data) |->
                 [c \in 1..Len(sheet.columns) |-> cell(sheet.data[r][c])]]
  IN [columns |-> sheet.columns,
      dtype   |-> [c \in 1..Len(sheet.columns) |->
                     IF \E r \in 1..Len(data) : IsStr(data[r][c])
                     THEN "O" ELSE "num"],
      index   |-> RangeIndex(Len(sheet.data)),
      data    |-> data]

(***************************************************************************)
(* orient_data                                                             *)
(***************************************************************************)
\* The column labels that are strings containing 'Unnamed'.
nbr_unknowns(col_names) ==
  {i \in 1..Len(col_names) :
     IsStr(col_names[i]) /\ find(col_names[i][2], "Unnamed") >= 0}

\* Drop NaN columns: every column labelled with the missing value.
DropNanColumns(t) ==
  IF \E i \in 1..Width(t) : isna(t.columns[i]) THEN drop(t, {NaN}) ELSE t

\* Sum 'Other:' and every column to its right into 'Other Sum'.
SumOthers(t) ==
  LET col_names == t.columns
  IN IF Str("Other:") \in Range(col_names)
     THEN LET other_idx == Loc(t, Str("Other:"))
              others == {col_names[i] : i \in other_idx..Len(col_names)}
          IN drop(setitem(t, Str("Other Sum"), sum_axis1(t, others),
                          t.dtype[other_idx]),
                  others)
     ELSE t

\* orient_data without the check of the labels: every sheet is transposed.
orient_data_unchecked(sos_data) ==
  SumOthers(dropna_all(DropNanColumns(
    transpose(set_index(sos_data, sos_data.columns[1])))))

orient_data(sos_data) ==
  LET col_names == sos_data.columns
  IN IF Cardinality(nbr_unknowns(col_names)) > 0
     THEN SumOthers(dropna_all(DropNanColumns(
            transpose(set_index(sos_data, col_names[1])))))
     ELSE sos_data

(***************************************************************************)
(* rename_data                                                             *)
(***************************************************************************)
rename_data(sos_data) ==
  [sos_data EXCEPT !.columns =
     [i \in 1..Width(sos_data) |->
        IF IsStr(sos_data.columns[i])
        THEN Str(Lookup(ColumnAliasMap, sos_data.columns[i][2]))
        ELSE sos_data.columns[i]]]

(***************************************************************************)
(* read_sheet after orient_data and rename_data: dropna, reset_index,      *)
(* fillna.                                                                 *)
(***************************************************************************)
\* The columns dropna(subset=...) looks up.
Mandatory == {Str("Cleanup Site"), Str("Date")}

\* df.fillna(0, inplace=True).  An object column left holding numbers only
\* is downcast to a numeric one by some pandas versions and kept by others.
fillna(t, downcast) ==
  LET data == [r \in 1..Height(t) |->
                 [c \in 1..Width(t) |->
                    IF isna(t.data[r][c]) THEN Num(0) ELSE t.data[r][c]]]
  IN [t EXCEPT !.data = data,
               !.dtype = [c \in 1..Width(t) |->
                            IF /\ downcast
                               /\ t.dtype[c] = "O"
                               /\ \A r \in 1..Height(t) : IsNum(data[r][c])
                            THEN "num" ELSE t.dtype[c]]]

(***************************************************************************)
(* _add_cols and merge_columns.  _add_cols works in place on the frame it  *)
(* is given and prints; st is that frame, the lines printed so far and     *)
(* whether an exception is propagating.                                    *)
(***************************************************************************)
\* target += source, cell by cell: a missing value on either side is kept
\* missing.
AddCells(a, b) ==
  IF IsNum(a) /\ IsNum(b) THEN Num(a[2] + b[2]) ELSE NaN

\* Whether sos_data[target_col] += sos_data[source_col] raises: text cannot
\* be added to a number.
AddRaises(t, target_col, source_col) ==
  \E r \in 1..Height(t) :
    /\ IsStr(Column(t, Str(target_col))[r])
    /\ IsNum(Column(t, Str(source_col))[r])

\* AddSource as it would be without the test "source_col in existing_cols":
\* looking up a column the frame does not have raises.
AddSourceUnguarded(st, target_col, source_col, existing_cols) ==
  IF st.err THEN st
  ELSE IF Str(source_col) \notin Range(existing_cols)
  THEN [st EXCEPT !.err = TRUE]
  ELSE IF /\ target_col # source_col
          /\ st.t.dtype[Loc(st.t, Str(source_col))] # "O"
  THEN [st EXCEPT !.t =
          drop(setitem(st.t, Str(target_col),
                       [r \in 1..Height(st.t) |->
                          AddCells(Column(st.t, Str(target_col))[r],
                                   Column(st.t, Str(source_col))[r])],
                       st.t.dtype[Loc(st.t, Str(target_col))]),
               {Str(source_col)})]
  ELSE st

\* One pass of the loop over source_cols.
AddSource(st, target_col, source_col, existing_cols) ==
  IF st.err THEN st
  ELSE IF Str(source_col) \in Range(existing_cols)
  THEN IF /\ target_col # source_col
          /\ st.t.dtype[Loc(st.t, Str(source_col))] # "O"
       THEN IF AddRaises(st.t, target_col, source_col)
            THEN [st EXCEPT !.err = TRUE]
            ELSE LET tgt == Column(st.t, Str(target_col))
                     srcc == Column(st.t, Str(source_col))
                     summed == [r \in 1..Height(st.t) |->
                                  AddCells(tgt[r], srcc[r])]
                 IN [st EXCEPT !.t =
                       drop(setitem(st.t, Str(target_col), summed,
                                    st.t.dtype[Loc(st.t, Str(target_col))]),
                            {Str(source_col)})]
       ELSE st
  ELSE [st EXCEPT !.out = Append(@, source_col \o " not in data frame")]

RECURSIVE AddSources(_, _, _, _, _)
AddSources(st, target_col, source_cols, existing_cols, i) ==
  IF i > Len(source_cols) THEN st
  ELSE AddSources(AddSource(st, target_col, source_cols[i], existing_cols),
                  target_col, source_cols, existing_cols, i + 1)

\* _add_cols as it would be without the test "target_col not in
\* existing_cols": the target starts from zero whether it exists or not.
_add_cols_from_zero(st, target_col, source_cols) ==
  IF st.err THEN st
  ELSE AddSources([st EXCEPT !.t = setitem(st.t, Str(target_col),
                                           [r \in 1..Height(st.t) |-> Num(0)],
                                           "num")],
                  target_col, source_cols, st.t.columns, 1)

_add_cols(st, target_col, source_cols) ==
  LET existing_cols == st.t.columns
      created ==
        IF Str(target_col) \notin Range(existing_cols)
        THEN [st EXCEPT !.t = setitem(st.t, Str(target_col),
                                      [r \in 1..Height(st.t) |-> Num(0)],
                                      "num")]
        ELSE st
  IN IF st.err THEN st
     ELSE AddSources(created, target_col, source_cols, existing_cols, 1)

RECURSIVE AddGroups(_, _)
AddGroups(st, g) ==
  IF g > Len(ColumnMergeMap) THEN st
  ELSE AddGroups(_add_cols(st, ColumnMergeMap[g][1], ColumnMergeMap[g][2]),
                 g + 1)

\* merge_columns on the cells of df: the frame returned, the lines printed,
\* the exception flag.
merge_columns(df, out) ==
  AddGroups([t |-> df, out |-> out, err |-> FALSE], 1)

(***************************************************************************)
(* _rename_site and merge_sites                                            *)
(***************************************************************************)
\* The lambda of _rename_site as it would be with str.replace: the key is
\* replaced inside the value instead of the value as a whole.
ReplaceInSite(s, site_name, site_key) ==
  IF find(s, site_key) >= 0
  THEN SubSeq(s, 1, find(s, site_key)) \o site_name
       \o SubSeq(s, find(s, site_key) + Len(site_key) + 1, Len(s))
  ELSE s

\* The lambda of _rename_site on one site value.
RenameSite(s, site_name, site_key) ==
  IF find(s, site_key) >= 0 THEN site_name ELSE s

\* The calls of _rename_site made in the opposite order, the last one first.
RECURSIVE ApplySiteRulesBackwards(_, _)
ApplySiteRulesBackwards(s, i) ==
  IF i > Len(SiteRules) THEN s
  ELSE RenameSite(ApplySiteRulesBackwards(s, i + 1),
                  SiteRules[i][1], SiteRules[i][2])

\* The calls of _rename_site from rule i on, on one site value.
RECURSIVE ApplySiteRules(_, _)
ApplySiteRules(s, i) ==
  IF i > Len(SiteRules) THEN s
  ELSE ApplySiteRules(RenameSite(s, SiteRules[i][1], SiteRules[i][2]), i + 1)

\* The strings of the column 'Cleanup Site'.
SiteCells(t) ==
  [r \in 1..Height(t) |-> Column(t, Str("Cleanup Site"))[r][2]]

\* First remove leading and trailing spaces:
\* sos_data['Cleanup Site'] = sos_data['Cleanup Site'].apply(strip), in place.
StripSites(t) ==
  setitem(t, Str("Cleanup Site"),
          [r \in 1..Height(t) |-> Str(strip(SiteCells(t)[r]))], "O")

\* Apply some renaming: the 14 _rename_site calls.
SubstringPass(s) == ApplySiteRules(s, 1)
RenameSites(t) ==
  setitem(t, Str("Cleanup Site"),
          [r \in 1..Height(t) |-> Str(SubstringPass(SiteCells(t)[r]))], "O")

\* set_index('Cleanup Site'), rename(index=row_names), the index written
\* back as the (now last) column 'Cleanup Site', reset_index(drop=True).
AliasSites(t) ==
  LET indexed == set_index(t, Str("Cleanup Site"))
      renamed == [indexed EXCEPT !.index =
                    [r \in 1..Height(indexed) |->
                       IF IsStr(indexed.index[r])
                       THEN Str(Lookup(row_names, indexed.index[r][2]))
                       ELSE indexed.index[r]]]
  IN reset_index(setitem(renamed, Str("Cleanup Site"), renamed.index, "O"))

\* The accumulator as it would be if the latest frame replaced it.
concat_latest(a, b) == b

(***************************************************************************)
(* pd.concat([a, b], axis=0, ignore_index=True): the rows of a, then the   *)
(* rows of b, under the columns of a followed by the new columns of b; a   *)
(* cell of a column the frame does not have is missing.                    *)
(***************************************************************************)
concat(a, b) ==
  LET fresh == {i \in 1..Width(b) : ~Has(a, b.columns[i])}
      columns == a.columns \o Keep(b.columns, fresh)
      cellOf(t, r, label) ==
        IF Has(t, label) THEN t.data[r][Loc(t, label)] ELSE NaN
      dtypeOf(label) ==
        IF Has(a, label) /\ Has(b, label)
        THEN IF a.dtype[Loc(a, label)] = b.dtype[Loc(b, label)]
             THEN a.dtype[Loc(a, label)] ELSE "O"
        ELSE IF Has(a, label) THEN a.dtype[Loc(a, label)]
             ELSE b.dtype[Loc(b, label)]
  IN [columns |-> columns,
      dtype   |-> [c \in 1..Len(columns) |-> dtypeOf(columns[c])],
      index   |-> RangeIndex(Height(a) + Height(b)),
      data    |-> [r \in 1..Height(a) |->
                     [c \in 1..Len(columns) |-> cellOf(a, r, columns[c])]]
                  \o [r \in 1..Height(b) |->
                     [c \in 1..Len(columns) |-> cellOf(b, r, columns[c])]]]

(***************************************************************************)
(* The heap of DataFrame objects.                                          *)
(***************************************************************************)
\* A reference no live object has.
NewRef(h) ==
  CHOOSE i \in 1..(Cardinality(DOMAIN h) + 1) :
    /\ i \notin DOMAIN h
    /\ \A j \in 1..(i - 1) : j \in DOMAIN h

Store(h, ref, t) ==
  [i \in (DOMAIN h) \cup {ref} |-> IF i = ref THEN t ELSE h[i]]

\* Objects no variable refers to are freed.
Collect(h, roots) == [i \in (DOMAIN h) \cap roots |-> h[i]]

\* df = sos_data, without copy(): the _add_cols calls work on the caller's
\* object.
alias(h, ref) == ref

\* df = sos_data.copy(): the object the _add_cols calls work on is a new one.
copy(h, ref) == NewRef(h)

NoTable == [columns |-> <<>>, dtype |-> <<>>, index |-> <<>>, data |-> <<>>]

(***************************************************************************)
(* State.                                                                  *)
(*   dir          the sheets of the data directory, in listing order       *)
(*   pc           the statement about to run                               *)
(*   file_names, k   the listing and the position of the for loop in it    *)
(*   heap         the live DataFrame objects                               *)
(*   sos_data, df, merged_data   references (None: no frame)               *)
(*   out          the lines printed                                        *)
(*   csv          the file written by __main__ (NoTable: none)             *)
(*   hist         history: the stages run so far as <<file, stage>>, the    *)
(*                frame sos_data (or df) held after each stage of the      *)
(*                current file as <<stage, frame>>, and the frames         *)
(*                merge_sites returned                                     *)
(***************************************************************************)
VARIABLES dir, pc, file_names, k, heap, sos_data, df, merged_data, out, csv,
          hist

vars == <<dir, pc, file_names, k, heap, sos_data, df, merged_data, out, csv,
          hist>>

\* The history after a stage that left the frame t.
Ran(name, t) ==
  [hist EXCEPT !.stages = Append(@, <<k, name>>),
               !.frames = Append(@, <<name, t>>)]

(***************************************************************************)
(* merge_data and __main__                                                 *)
(***************************************************************************)
\* file_names = os.listdir(data_dir); merged_data = None
ListDir ==
  /\ pc = "listdir"
  /\ file_names' = [i \in 1..Len(dir) |-> i]
  /\ merged_data' = None
  /\ pc' = "for"
  /\ UNCHANGED <<dir, k, heap, sos_data, df, out, csv, hist>>

\* for file_name in file_names: the next file.
NextFile ==
  /\ pc = "for"
  /\ k < Len(file_names)
  /\ k' = k + 1
  /\ pc' = "read_excel"
  /\ UNCHANGED <<dir, file_names, heap, sos_data, df, merged_data, out, csv,
                 hist>>

\* The loop is exhausted: return merged_data.
Return ==
  /\ pc = "for"
  /\ k >= Len(file_names)
  /\ pc' = "returned"
  /\ UNCHANGED <<dir, file_names, k, heap, sos_data, df, merged_data, out,
                 csv, hist>>

\* read_sheet: sos_data = pd.read_excel(file_path, na_values=...)
ReadExcel ==
  /\ pc = "read_excel"
  /\ LET ref == NewRef(heap)
     IN /\ sos_data' = ref
        /\ heap' = Collect(Store(heap, ref, read_excel(dir[file_names[k]])),
                           {ref, df, merged_data})
  /\ hist' = [hist EXCEPT !.stages = Append(@, <<k, "read_excel">>),
                           !.frames = << <<"read_excel", heap'[sos_data']>> >>]
  /\ pc' = "orient_data"
  /\ UNCHANGED <<dir, file_names, k, df, merged_data, out, csv>>

\* read_sheet: sos_data = orient_data(sos_data).  A transposed frame is a new
\* object; otherwise the same object comes back.
OrientData ==
  /\ pc = "orient_data"
  /\ LET t == orient_data(heap[sos_data])
         ref == IF nbr_unknowns(heap[sos_data].columns) # {}
                THEN NewRef(heap) ELSE sos_data
     IN /\ sos_data' = ref
        /\ heap' = Collect(Store(heap, ref, t), {ref, df, merged_data})
        /\ hist' = Ran("orient_data", t)
  /\ pc' = "rename_data"
  /\ UNCHANGED <<dir, file_names, k, df, merged_data, out, csv>>

\* read_sheet: rename_data(sos_data), in place.
RenameData ==
  /\ pc = "rename_data"
  /\ heap' = [heap EXCEPT ![sos_data] = rename_data(@)]
  /\ hist' = Ran("rename_data", heap'[sos_data])
  /\ pc' = "dropna"
  /\ UNCHANGED <<dir, file_names, k, sos_data, df, merged_data, out, csv>>

\* read_sheet: sos_data.dropna(subset=['Cleanup Site', 'Date'], inplace=True);
\* a frame without one of the two columns raises KeyError.
DropNa ==
  /\ pc = "dropna"
  /\ IF \A l \in Mandatory : Has(heap[sos_data], l)
     THEN /\ heap' = [heap EXCEPT ![sos_data] = dropna_subset(@, Mandatory)]
          /\ pc' = "reset_index"
     ELSE /\ heap' = heap
          /\ pc' = "KeyError"
  /\ hist' = Ran("dropna", heap'[sos_data])
  /\ UNCHANGED <<dir, file_names, k, sos_data, df, merged_data, out, csv>>

\* read_sheet: sos_data = sos_data.reset_index(drop=True)
ResetIndex ==
  /\ pc = "reset_index"
  /\ LET ref == NewRef(heap)
     IN /\ sos_data' = ref
        /\ heap' = Collect(Store(heap, ref, reset_index(heap[sos_data])),
                           {ref, df, merged_data})
  /\ hist' = Ran("reset_index", heap'[sos_data'])
  /\ pc' = "fillna"
  /\ UNCHANGED <<dir, file_names, k, df, merged_data, out, csv>>

\* read_sheet: sos_data.fillna(0, inplace=True); return sos_data
FillNa ==
  /\ pc = "fillna"
  /\ \E downcast \in BOOLEAN :
       heap' = [heap EXCEPT ![sos_data] = fillna(@, downcast)]
  /\ hist' = Ran("fillna", heap'[sos_data])
  /\ pc' = "merge_columns"
  /\ UNCHANGED <<dir, file_names, k, sos_data, df, merged_data, out, csv>>

\* merge_columns(sos_data) up to its return: df = sos_data.copy(), the
\* fifteen _add_cols(df, ...) calls, return df.  Adding a number to text
\* raises TypeError.
MergeColumns ==
  /\ pc = "merge_columns"
  /\ \E res \in {merge_columns(heap[sos_data], out)} :
       LET ref == copy(heap, sos_data)
       IN /\ IF res.err
             THEN /\ df' = None
                  /\ heap' = Collect(Store(heap, ref, res.t),
                                     {sos_data, merged_data})
                  /\ pc' = "TypeError"
             ELSE /\ df' = ref
                  /\ heap' = Store(heap, ref, res.t)
                  /\ pc' = "merge_columns_ret"
          /\ out' = res.out
          /\ hist' = Ran("merge_columns", res.t)
  /\ UNCHANGED <<dir, file_names, k, sos_data, merged_data, csv>>

\* merge_data: sos_data = merge_columns(sos_data)
AssignMerged ==
  /\ pc = "merge_columns_ret"
  /\ sos_data' = df
  /\ df' = None
  /\ heap' = Collect(heap, {df, merged_data})
  /\ pc' = "strip_sites"
  /\ UNCHANGED <<dir, file_names, k, merged_data, out, csv, hist>>

\* merge_sites: the site values are stripped, in place.
SitesStrip ==
  /\ pc = "strip_sites"
  /\ heap' = [heap EXCEPT ![sos_data] = StripSites(@)]
  /\ hist' = Ran("strip_sites", heap'[sos_data])
  /\ pc' = "rename_sites"
  /\ UNCHANGED <<dir, file_names, k, sos_data, df, merged_data, out, csv>>

\* merge_sites: the _rename_site calls, in place.
SitesRename ==
  /\ pc = "rename_sites"
  /\ heap' = [heap EXCEPT ![sos_data] = RenameSites(@)]
  /\ hist' = Ran("rename_sites", heap'[sos_data])
  /\ pc' = "alias_sites"
  /\ UNCHANGED <<dir, file_names, k, sos_data, df, merged_data, out, csv>>

\* merge_sites: the row_names renaming on a new frame, which is returned and
\* bound to sos_data by merge_data.
SitesAlias ==
  /\ pc = "alias_sites"
  /\ LET ref == NewRef(heap)
         t == AliasSites(heap[sos_data])
     IN /\ sos_data' = ref
        /\ heap' = Collect(Store(heap, ref, t), {ref, df, merged_data})
        /\ hist' = [Ran("alias_sites", t) EXCEPT !.results = Append(@, t)]
  /\ pc' = "concat"
  /\ UNCHANGED <<dir, file_names, k, df, merged_data, out, csv>>

\* merge_data: the first frame is the accumulator, a later one is stacked
\* under it.
Concat ==
  /\ pc = "concat"
  /\ IF merged_data = None
     THEN /\ merged_data' = sos_data
          /\ heap' = heap
     ELSE LET ref == NewRef(heap)
          IN /\ merged_data' = ref
             /\ heap' = Collect(Store(heap, ref,
                                      concat(heap[merged_data], heap[sos_data])),
                                {ref, sos_data, df})
  /\ hist' = [hist EXCEPT !.stages = Append(@, <<k, "concat">>)]
  /\ pc' = "for"
  /\ UNCHANGED <<dir, file_names, k, sos_data, df, out, csv>>

\* __main__ as it would be if to_csv were guarded: nothing is written for
\* None and the program ends normally.
ToCsvGuarded ==
  /\ pc = "returned"
  /\ csv' = IF merged_data = None THEN csv ELSE heap[merged_data]
  /\ pc' = "done"
  /\ UNCHANGED <<dir, file_names, k, heap, sos_data, df, merged_data, out,
                 hist>>

\* __main__: merged_df.to_csv(...); None has no to_csv.
ToCsv ==
  /\ pc = "returned"
  /\ IF merged_data = None
     THEN /\ csv' = csv
          /\ pc' = "AttributeError"
     ELSE /\ csv' = heap[merged_data]
          /\ pc' = "done"
  /\ UNCHANGED <<dir, file_names, k, heap, sos_data, df, merged_data, out,
                 hist>>

(***************************************************************************)
(* Inputs.  The bounds of the model.                                       *)
(***************************************************************************)
\* Files in the data directory, and cleanup events in a sheet, at most.
MaxFiles == 2
MaxRows == 2
\* Source columns of a merge group present in a frame given to
\* merge_columns, at most.
MaxSrc == 2
\* Spaces before and after a site name, at most.
MaxPad == 1

SeqsUpTo(S, n) == UNION {[1..m -> S] : m \in 0..n}

\* A cleanup event as typed into a sheet: the site or a dash or nothing,
\* the date or nothing, a count or UNK.
EventKinds ==
  [site  : {Str(" Seacliff "), Str("-")},
   date  : {Str("2020-01-01"), NaN},
   count : {Num(1), Num(2), Str("UNK")}]

EventLabels == <<"Event A", "Event B", "Unnamed: 3", "Event D">>

\* A sheet with one event per row.  The volunteers cell numbers the events.
RowSheet(events) ==
  [columns |-> <<Str("Date of Cleanup Event/Fecha"),
                 Str("Cleanup Site/Sitio de limpieza"),
                 Str("# of Volunteers"),
                 Str("Metal Bottle Caps")>>,
   data    |-> [r \in 1..Len(events) |->
                  <<events[r].date, events[r].site, Num(r),
                    events[r].count>>]]

\* A sheet of the older layout, one item per row and one event per column:
\* the items are named in the unlabeled first column, a blank row separates
\* the 'Other:' items and a blank column ends the sheet.  item is the name
\* typed for the volunteers row.
ColSheet(events, item) ==
  LET n == Len(events)
      line(label, cell(_)) ==
        <<label>> \o [i \in 1..n |-> cell(i)] \o <<NaN>>
      date(i) == events[i].date
      site(i) == events[i].site
      count(i) == events[i].count
      nr(i) == Num(i)
      one(i) == Num(1)
      blank(i) == NaN
  IN [columns |-> <<Str("Unnamed: 0")>>
                  \o [i \in 1..n |-> Str(EventLabels[i])]
                  \o <<Str("Unnamed: 5")>>,
      data    |-> << line(Str("Cleanup Date"), date),
                     line(Str("Cleanup Site"), site),
                     line(Str(item), nr),
                     line(Str("Metal Bottle Caps"), count),
                     line(NaN, blank),
                     line(Str("Other:"), one),
                     line(Str("Fireworks"), count) >>]

\* A sheet without a date column.
UndatedSheet ==
  [columns |-> <<Str("Cleanup Site"), Str("Bottle Caps")>>,
   data    |-> << <<Str("Seacliff"), Num(4)>> >>]

Sheets ==
  {RowSheet(e) : e \in SeqsUpTo(EventKinds, MaxRows)}
  \cup {ColSheet(e, "# of Volunteers") : e \in SeqsUpTo(EventKinds, MaxRows)}
  \cup {UndatedSheet}

\* Sheets for directories of several files: two one-event sheets with
\* variants of one site, a sheet of the older layout with two events, and a
\* sheet holding a summary row only.
SeveralSheets ==
  { [columns |-> <<Str("Cleanup Site"), Str("Date"), Str("Bottle Caps")>>,
     data    |-> << <<Str("Sunny Cove"), Str("2020-01-01"), Num(5)>> >>],
    [columns |-> <<Str("Cleanup Site"), Str("Date"),
                   Str("Metal Bottle Caps")>>,
     data    |-> << <<Str("Sunny Cove Beach"), Str("2021-01-01"), Num(3)>> >>],
    ColSheet(<< [site |-> Str("Seacliff"), date |-> Str("2019-01-01"),
                 count |-> Num(2)],
                [site |-> Str("Sunset Beach"), date |-> Str("2019-02-01"),
                 count |-> Str("UNK")] >>, "# of Volunteers"),
    [columns |-> <<Str("Cleanup Site"), Str("Date"), Str("Bottle Caps")>>,
     data    |-> << <<NaN, NaN, Num(7)>> >>] }

Dirs == SeqsUpTo(SeveralSheets, MaxFiles) \cup {<<s>> : s \in Sheets}

NoHist == [stages |-> <<>>, frames |-> <<>>, results |-> <<>>]

\* The program is started on a data directory.
Init ==
  /\ dir \in Dirs
  /\ pc = "listdir"
  /\ file_names = <<>>
  /\ k = 0
  /\ heap = <<>>
  /\ sos_data = None
  /\ df = None
  /\ merged_data = None
  /\ out = <<>>
  /\ csv = NoTable
  /\ hist = NoHist

Next ==
  \/ ListDir \/ NextFile \/ Return
  \/ ReadExcel \/ OrientData \/ RenameData \/ DropNa \/ ResetIndex \/ FillNa
  \/ MergeColumns \/ AssignMerged
  \/ SitesStrip \/ SitesRename \/ SitesAlias
  \/ Concat \/ ToCsv

Spec == Init /\ [][Next]_vars

(***************************************************************************)
(* merge_columns on the frames read_sheet can deliver: no missing values,  *)
(* rows numbered from 0, the two mandatory columns and, of one merge       *)
(* group, the target and up to MaxSrc of the sources.  A numeric column    *)
(* holds numbers; an object column holds a text in its first row           *)
(* ("mixed") or numbers only ("objnum").                                   *)
(***************************************************************************)
RECURSIVE SubsetsUpTo(_, _)
SubsetsUpTo(S, m) ==
  IF m = 0 THEN {{}}
  ELSE LET P == SubsetsUpTo(S, m - 1)
       IN P \cup {p \cup {x} : p \in P, x \in S}

ItemCells(kind, seed) ==
  [r \in 1..MaxRows |->
     IF kind = "mixed" /\ r = 1 THEN Str("many") ELSE Num(seed + r)]

ItemDtype(kind) == IF kind = "num" THEN "num" ELSE "O"

\* The kinds the target column of group g may have on entry; a target that
\* is listed among its own sources is present when that source is.
TargetKinds(g) ==
  IF ColumnMergeMap[g][1] \in Range(ColumnMergeMap[g][2])
  THEN {"absent"}
  ELSE {"absent", "num", "mixed", "objnum"}

MergeFrame(g, kinds, tk) ==
  LET sources == ColumnMergeMap[g][2]
      present == Keep([j \in 1..Len(sources) |-> j], DOMAIN kinds)
      tcols == IF tk = "absent" THEN <<>> ELSE <<ColumnMergeMap[g][1]>>
      ncols == 2 + Len(tcols) + Len(present)
      label(c) == IF c = 1 THEN Str("Date")
                  ELSE IF c = 2 THEN Str("Cleanup Site")
                  ELSE IF c - 2 <= Len(tcols) THEN Str(tcols[c - 2])
                  ELSE Str(sources[present[c - 2 - Len(tcols)]])
      kind(c) == IF c <= 2 THEN "text"
                 ELSE IF c - 2 <= Len(tcols) THEN tk
                 ELSE kinds[present[c - 2 - Len(tcols)]]
      cells(c) == IF c = 1 THEN [r \in 1..MaxRows |-> Str("2020-01-01")]
                  ELSE IF c = 2 THEN [r \in 1..MaxRows |-> Str("Seacliff")]
                  ELSE IF c - 2 <= Len(tcols) THEN ItemCells(tk, 20)
                  ELSE ItemCells(kind(c), present[c - 2 - Len(tcols)])
  IN [columns |-> [c \in 1..ncols |-> label(c)],
      dtype   |-> [c \in 1..ncols |-> ItemDtype(kind(c))],
      index   |-> RangeIndex(MaxRows),
      data    |-> [r \in 1..MaxRows |-> [c \in 1..ncols |-> cells(c)[r]]]]

\* A caller holding the frame t in sos_data, about to run the statement at.
Holding(t, at) ==
  /\ dir = <<>>
  /\ pc = at
  /\ file_names = <<>>
  /\ k = 0
  /\ heap = <<t>>
  /\ sos_data = 1
  /\ df = None
  /\ merged_data = None
  /\ out = <<>>
  /\ csv = NoTable
  /\ hist = [NoHist EXCEPT !.frames = << <<"input", t>> >>]

InitMerge ==
  \E g \in 1..Len(ColumnMergeMap) :
    \E S \in SubsetsUpTo(1..Len(ColumnMergeMap[g][2]), MaxSrc) :
      \E kinds \in [S -> {"num", "mixed"}], tk \in TargetKinds(g) :
        Holding(MergeFrame(g, kinds, tk), "merge_columns")

SpecMerge == InitMerge /\ [][MergeColumns]_vars

(***************************************************************************)
(* merge_sites, run twice, on a frame of one event whose site name is      *)
(* padded text made of a name the program knows (a key or a name of the    *)
(* _rename_site calls, a variant or a canonical name of row_names) or      *)
(* does not know, alone or followed by a second key.                       *)
(***************************************************************************)
SiteVocabulary ==
  {SiteRules[i][j] : i \in 1..Len(SiteRules), j \in 1..2}
  \cup {row_names[i][j] : i \in 1..Len(row_names), j \in 1..2}
  \cup {"Seabright Beach", ""}

SiteKeys == {SiteRules[i][2] : i \in 1..Len(SiteRules)}

RECURSIVE Spaces(_)
Spaces(n) == IF n = 0 THEN "" ELSE " " \o Spaces(n - 1)

Pads == {Spaces(n) : n \in 0..MaxPad} \cup {"\t"}

SiteNames ==
  {a \o b : a \in Pads,
            b \in {c \o d : c \in SiteVocabulary \cup {x \o " & " \o y :
                                   x \in SiteKeys, y \in SiteKeys},
                            d \in Pads}}

SiteFrame(s) ==
  [columns |-> <<Str("Cleanup Site"), Str("Date"), Str("Bottle Caps")>>,
   dtype   |-> <<"O", "O", "num">>,
   index   |-> RangeIndex(1),
   data    |-> << <<Str(s), Str("2020-01-01"), Num(1)>> >>]

InitSites == \E s \in SiteNames : Holding(SiteFrame(s), "strip_sites")

\* The frame merge_sites returned is given to merge_sites once more.
Renormalize ==
  /\ pc = "concat"
  /\ Len(hist.results) = 1
  /\ pc' = "strip_sites"
  /\ UNCHANGED <<dir, file_names, k, heap, sos_data, df, merged_data, out,
                 csv, hist>>

NextSites == SitesStrip \/ SitesRename \/ SitesAlias \/ Renormalize

SpecSites == InitSites /\ [][NextSites]_vars

(***************************************************************************)
(* orient_data, run twice, on the sheets as read.  Besides the sheets of   *)
(* the pipeline there are sheets of the older layout in which the text     *)
(* 'Unnamed' occurs in an item's name.                                     *)
(***************************************************************************)
OrientSheets ==
  Sheets
  \cup {ColSheet(e, "Unnamed volunteers") : e \in SeqsUpTo(EventKinds, MaxRows)}

InitOrient ==
  \E s \in OrientSheets : Holding(read_excel(s), "orient_data")

\* The frame orient_data returned is given to orient_data once more.
Reorient ==
  /\ pc = "rename_data"
  /\ Len(hist.frames) = 2
  /\ pc' = "orient_data"
  /\ UNCHANGED <<dir, file_names, k, heap, sos_data, df, merged_data, out,
                 csv, hist>>

NextOrient == OrientData \/ Reorient

SpecOrient == InitOrient /\ [][NextOrient]_vars

(***************************************************************************)
(* Properties.  Lookups in the history.                                    *)
(***************************************************************************)
\* The positions in hist.frames of the frames left by a stage.
Ranks(name) == {i \in 1..Len(hist.frames) : hist.frames[i][1] = name}
Done(name) == Ranks(name) # {}
LastRank(name) == CHOOSE i \in Ranks(name) : \A j \in Ranks(name) : i >= j
\* The frame the latest run of a stage left, and the frame it was given.
After(name) == hist.frames[LastRank(name)][2]
Before(name) == hist.frames[LastRank(name) - 1][2]

Target(g) == ColumnMergeMap[g][1]
Sources(g) == ColumnMergeMap[g][2]
Groups == 1..Len(ColumnMergeMap)
DtypeOf(t, s) == t.dtype[Loc(t, Str(s))]
\* A source column the frame has with a numeric dtype.
Numeric(t, s) == Has(t, Str(s)) /\ DtypeOf(t, s) # "O"
\* merge_columns has returned a frame.
Merged == pc = "merge_columns_ret"

(***************************************************************************)
(* C1.  For every merge group, after merge_columns the total of the target *)
(* column is the sum of the totals of the source columns that were present *)
(* and numeric in the input, and no source column of the group is left.    *)
(* This is the statement as claimed; it fails on the code.                 *)
(***************************************************************************)
C1_TotalOfSourcesOnly ==
  Merged =>
    \A g \in Groups :
      /\ Total(heap[df], Str(Target(g)))
           = SumSeq([j \in 1..Len(Sources(g)) |->
                       IF Numeric(Before("merge_columns"), Sources(g)[j])
                       THEN Total(Before("merge_columns"), Str(Sources(g)[j]))
                       ELSE 0])
      /\ \A j \in 1..Len(Sources(g)) : ~Has(heap[df], Str(Sources(g)[j]))

(***************************************************************************)
(* C1, amended.  For every merge group, when merge_columns returns, the    *)
(* total of the target column is its own total in the input (0 when the    *)
(* input had no such column) plus the totals of the source columns that    *)
(* were present, numeric and not the target itself; each of those source   *)
(* columns is gone, and a source column is left exactly when it is the     *)
(* target or was present with object dtype.                                *)
(***************************************************************************)
C1_TargetTotal ==
  Merged =>
    \A g \in Groups :
      /\ Has(heap[df], Str(Target(g)))
      /\ Total(heap[df], Str(Target(g)))
           = Total(Before("merge_columns"), Str(Target(g)))
             + SumSeq([j \in 1..Len(Sources(g)) |->
                         IF /\ Numeric(Before("merge_columns"), Sources(g)[j])
                            /\ Sources(g)[j] # Target(g)
                         THEN Total(Before("merge_columns"),
                                    Str(Sources(g)[j]))
                         ELSE 0])
      /\ \A j \in 1..Len(Sources(g)) :
           Sources(g)[j] # Target(g) =>
             (Has(heap[df], Str(Sources(g)[j]))
                <=> /\ Has(Before("merge_columns"), Str(Sources(g)[j]))
                    /\ DtypeOf(Before("merge_columns"), Sources(g)[j]) = "O")

\* A frame was merged that had a target of its own with counts in it, a
\* numeric source and an object source of that target.
C1_Witness ==
  /\ Merged
  /\ \E g \in Groups :
       /\ Target(g) \notin Range(Sources(g))
       /\ Total(Before("merge_columns"), Str(Target(g))) > 0
       /\ \E i, j \in 1..Len(Sources(g)) :
            /\ Numeric(Before("merge_columns"), Sources(g)[i])
            /\ Has(Before("merge_columns"), Str(Sources(g)[j]))
            /\ DtypeOf(Before("merge_columns"), Sources(g)[j]) = "O"
            /\ ~Has(heap[df], Str(Sources(g)[i]))
            /\ Has(heap[df], Str(Sources(g)[j]))

(***************************************************************************)
(* C7.  merge_columns works on a copy: when it returns or raises, the      *)
(* frame it was given has the columns, the dtypes, the row labels and the  *)
(* cells it had on entry.                                                  *)
(***************************************************************************)
C7_InputPreserved ==
  (Done("merge_columns") /\ pc \in {"merge_columns_ret", "TypeError"})
    => heap[sos_data] = Before("merge_columns")

\* merge_columns returned a frame in which a column was created, a target
\* summed and a source dropped.
C7_Witness ==
  /\ Merged
  /\ df # sos_data
  /\ \E g \in Groups :
       /\ ~Has(heap[sos_data], Str(Target(g)))
       /\ Total(heap[df], Str(Target(g))) > 0
       /\ \E j \in 1..Len(Sources(g)) :
            /\ Has(heap[sos_data], Str(Sources(g)[j]))
            /\ ~Has(heap[df], Str(Sources(g)[j]))

(***************************************************************************)
(* C10.  In _add_cols a source column that is absent or of object dtype    *)
(* does not disturb the others.  When merge_columns returns: exactly the   *)
(* absent source columns were reported, each once and in the order of the  *)
(* calls; an object source column is in the frame with its dtype and cells *)
(* as they were; and in every row the target holds what it held plus the   *)
(* cells of the present numeric sources, which are gone.  An exception     *)
(* comes from a target column holding text only.                           *)
(***************************************************************************)
RECURSIVE SourcesFrom(_)
SourcesFrom(g) ==
  IF g > Len(ColumnMergeMap) THEN <<>>
  ELSE Sources(g) \o SourcesFrom(g + 1)

Reported(t) ==
  LET Absent(s) == ~Has(t, Str(s))
      absent == SelectSeq(SourcesFrom(1), Absent)
  IN [i \in 1..Len(absent) |-> absent[i] \o " not in data frame"]

C10_SourcesIndependent ==
  /\ Merged =>
       /\ out = Reported(Before("merge_columns"))
       /\ \A g \in Groups :
            /\ \A j \in 1..Len(Sources(g)) :
                 (/\ Has(Before("merge_columns"), Str(Sources(g)[j]))
                  /\ DtypeOf(Before("merge_columns"), Sources(g)[j]) = "O")
                 => /\ Has(heap[df], Str(Sources(g)[j]))
                    /\ DtypeOf(heap[df], Sources(g)[j]) = "O"
                    /\ Column(heap[df], Str(Sources(g)[j]))
                         = Column(Before("merge_columns"), Str(Sources(g)[j]))
            /\ \A r \in 1..Height(heap[df]) :
                 NanToZero(Column(heap[df], Str(Target(g)))[r])
                   = (IF Has(Before("merge_columns"), Str(Target(g)))
                      THEN NanToZero(Column(Before("merge_columns"),
                                            Str(Target(g)))[r])
                      ELSE 0)
                     + SumSeq([j \in 1..Len(Sources(g)) |->
                                 IF /\ Numeric(Before("merge_columns"),
                                               Sources(g)[j])
                                    /\ Sources(g)[j] # Target(g)
                                 THEN Column(Before("merge_columns"),
                                             Str(Sources(g)[j]))[r][2]
                                 ELSE 0])
            /\ \A j \in 1..Len(Sources(g)) :
                 (/\ Numeric(Before("merge_columns"), Sources(g)[j])
                  /\ Sources(g)[j] # Target(g))
                 => ~Has(heap[df], Str(Sources(g)[j]))
  /\ pc = "TypeError" =>
       \E g \in Groups :
         /\ Has(Before("merge_columns"), Str(Target(g)))
         /\ \E r \in 1..Height(Before("merge_columns")) :
              IsStr(Column(Before("merge_columns"), Str(Target(g)))[r])

\* A group was merged of which one source was numeric, one of object dtype
\* and the others absent.
C10_Witness ==
  /\ Merged
  /\ \E g \in Groups :
       \E i, j, m \in 1..Len(Sources(g)) :
         /\ Numeric(Before("merge_columns"), Sources(g)[i])
         /\ Sources(g)[i] # Target(g)
         /\ Has(Before("merge_columns"), Str(Sources(g)[j]))
         /\ DtypeOf(Before("merge_columns"), Sources(g)[j]) = "O"
         /\ ~Has(Before("merge_columns"), Str(Sources(g)[m]))
         /\ Total(heap[df], Str(Target(g))) > 0
         /\ Has(heap[df], Str(Sources(g)[j]))

(***************************************************************************)
(* merge_sites.  The site values of a frame, and the rules a value meets.  *)
(***************************************************************************)
SitesOf(t) ==
  [r \in 1..Height(t) |-> Column(t, Str("Cleanup Site"))[r][2]]

\* The _rename_site calls whose key occurs in s.
Matching(s) == {i \in 1..Len(SiteRules) : find(s, SiteRules[i][2]) >= 0}
FirstMatching(s) == CHOOSE i \in Matching(s) : \A j \in Matching(s) : i <= j

AliasKeys == {row_names[i][1] : i \in 1..Len(row_names)}

\* merge_sites has run twice.
Twice(name) == Cardinality(Ranks(name)) = 2

(***************************************************************************)
(* C2.  merge_sites is idempotent on the site field: the site values after *)
(* a second run are the site values after the first.                       *)
(***************************************************************************)
C2_SitesIdempotent ==
  Twice("alias_sites") =>
    SitesOf(After("alias_sites")) = SitesOf(hist.results[1])

\* merge_sites ran twice on a site name that the first run trimmed and
\* replaced through row_names.
C2_Witness ==
  /\ Twice("alias_sites")
  /\ \E r \in 1..Height(hist.frames[1][2]) :
       LET s == SitesOf(hist.frames[1][2])[r]
       IN /\ strip(s) # s
          /\ strip(s) \in AliasKeys
          /\ SitesOf(hist.results[1])[r] = Lookup(row_names, strip(s))
          /\ SitesOf(hist.results[1])[r] # strip(s)

(***************************************************************************)
(* C8.  In the substring pass the first match wins: after the 14           *)
(* _rename_site calls a trimmed value that contains a key is the name of   *)
(* the first call whose key it contains, a value that contains none is as  *)
(* it was, and no name contains the key of a later call.                   *)
(***************************************************************************)
C8_FirstMatchWins ==
  /\ Done("rename_sites") =>
       \A r \in 1..Height(After("rename_sites")) :
         LET s == SitesOf(Before("rename_sites"))[r]
         IN SitesOf(After("rename_sites"))[r]
              = IF Matching(s) = {} THEN s
                ELSE SiteRules[FirstMatching(s)][1]
  /\ \A i, j \in 1..Len(SiteRules) :
       i < j => find(SiteRules[i][1], SiteRules[j][2]) < 0

\* The substring pass ran on a value containing the keys of two calls and
\* left the name of the first.
C8_Witness ==
  /\ Done("rename_sites")
  /\ \E r \in 1..Height(After("rename_sites")) :
       LET s == SitesOf(Before("rename_sites"))[r]
       IN /\ Cardinality(Matching(s)) >= 2
          /\ SitesOf(After("rename_sites"))[r] = SiteRules[FirstMatching(s)][1]
          /\ SitesOf(After("rename_sites"))[r] # s

(***************************************************************************)
(* C9.  merge_sites maps a site value equal to a key of row_names, with or *)
(* without surrounding whitespace, to the value row_names gives it, and    *)
(* passes a value that meets no rule and no key, trimmed.  The first part  *)
(* fails on the code for the keys that contain a _rename_site key.         *)
(***************************************************************************)
C9_AliasKeysMapped ==
  (Done("alias_sites") /\ ~Twice("strip_sites")) =>
    \A r \in 1..Height(hist.frames[1][2]) :
      LET s == strip(SitesOf(hist.frames[1][2])[r])
      IN /\ s \in AliasKeys
              => SitesOf(After("alias_sites"))[r] = Lookup(row_names, s)
         /\ (s \notin AliasKeys /\ Matching(s) = {})
              => SitesOf(After("alias_sites"))[r] = s

(***************************************************************************)
(* C3.  Rows are dropped for a missing site or date only.  The frame       *)
(* merge_columns returns after read_sheet has the rows of the oriented and *)
(* renamed sheet that have a site and a date, in their order and numbered  *)
(* from 0; rename_data and merge_columns leave the number of rows alone.   *)
(***************************************************************************)
Identifying == {Str("Cleanup Site"), Str("Date"), Str("Adult Volunteers")}

Complete(t) ==
  {r \in 1..Height(t) : \A l \in Mandatory : ~isna(Column(t, l)[r])}

C3_RowsKept ==
  /\ (Merged /\ Done("rename_data")) =>
       LET renamed == After("rename_data")
       IN /\ Height(heap[df]) = Cardinality(Complete(renamed))
          /\ heap[df].index = RangeIndex(Cardinality(Complete(renamed)))
          /\ \A l \in Identifying :
               Has(renamed, l) =>
                 Column(heap[df], l) = Keep(Column(renamed, l),
                                            Complete(renamed))
  /\ Done("rename_data") =>
       Height(After("rename_data")) = Height(Before("rename_data"))
  /\ Merged =>
       Height(After("merge_columns")) = Height(Before("merge_columns"))

\* A sheet was read and merged whose first event lacked the site or the
\* date and whose second event had both.
C3_Witness ==
  /\ Merged
  /\ Done("rename_data")
  /\ Height(After("rename_data")) = 2
  /\ Complete(After("rename_data")) = {2}
  /\ Height(heap[df]) = 1
  /\ Column(heap[df], Str("Adult Volunteers")) = <<Num(2)>>

(***************************************************************************)
(* merge_data.  The rows of the frames rs, one frame under the other.      *)
(***************************************************************************)
Heights(rs) == SumSeq([i \in 1..Len(rs) |-> Height(rs[i])])

Stacked(m, rs) ==
  /\ Height(m) = Heights(rs)
  /\ m.index = RangeIndex(Height(m))
  /\ \A i \in 1..Len(rs) :
       \A r \in 1..Height(rs[i]) :
         \A c \in 1..Width(rs[i]) :
           /\ Has(m, rs[i].columns[c])
           /\ m.data[Heights(SubSeq(rs, 1, i - 1)) + r]
                    [Loc(m, rs[i].columns[c])]
                = rs[i].data[r][c]

Unlabeled(label) == IsStr(label) /\ find(label[2], "Unnamed") >= 0

\* The frame orient_data was first given, what it returned, and what it
\* returned when given that.
Given == hist.frames[1][2]
Oriented == hist.frames[2][2]
Reoriented == hist.frames[3][2]

ItemsAsColumns(t0, t1) ==
  /\ Range(t1.columns)
       \subseteq (Range(Column(t0, t0.columns[1])) \ {NaN})
                   \cup {Str("Other Sum")}
  /\ Range(t1.index) \subseteq Range(Tail(t0.columns))
  /\ \A r \in 1..Height(t1) :
       \A c \in 1..Width(t1) :
         t1.columns[c] # Str("Other Sum") =>
           \E i \in 1..Height(t0) :
             /\ t0.data[i][1] = t1.columns[c]
             /\ t1.data[r][c] = t0.data[i][Loc(t0, t1.index[r])]

StageOrder ==
  <<"read_excel", "orient_data", "rename_data", "dropna", "reset_index",
    "fillna", "merge_columns", "strip_sites", "rename_sites", "alias_sites",
    "concat">>

C6_OneFileAtATime ==
  /\ \A i \in 1..Len(hist.stages) :
       hist.stages[i] = <<((i - 1) \div Len(StageOrder)) + 1,
                          StageOrder[((i - 1) % Len(StageOrder)) + 1]>>
  /\ (Done("read_excel") /\ pc # "read_excel") =>
       After("read_excel") = read_excel(dir[file_names[k]])
  /\ (pc = "for" /\ k >= 1) =>
       /\ Len(hist.results) = k
       /\ merged_data # None
       /\ Stacked(heap[merged_data], hist.results)

\* Two files have been folded into the accumulator, each with an event and
\* the second with a column the first did not have.
C6_Witness ==
  /\ pc = "for"
  /\ k = 2
  /\ Height(hist.results[1]) >= 1
  /\ Height(hist.results[2]) >= 1
  /\ Range(hist.results[2].columns) # Range(hist.results[1].columns)
  /\ SitesOf(hist.results[1]) # SitesOf(hist.results[2])

=============================================================================
